---- MODULE Spec2Model ----
(***************************************************************************)
(* A state-machine model of the terminal chat front-end: the App component *)
(* (message handler, typewriter loop, key handler, mode toggle), the chat  *)
(* service module (currentMode / chatSession) and the virtual filesystem   *)
(* the App calls into.                                                     *)
(*                                                                         *)
(* Text is modelled as follows.  A raw input line is a sequence of         *)
(* lexemes, each either a run of blanks (" ", "  ") or a word, so that     *)
(* trim(), toLowerCase(), the whitespace tokenizer and the === / startsWith*)
(* tests of the handler are computed rather than looked up.  A streamed    *)
(* character is an integer: the k-th character delivered by the remote     *)
(* stream is k, and the i-th character of the error fragment is -i.        *)
(***************************************************************************)
EXTENDS Integers, Sequences, FiniteSets, TLC

\* ------------------------------------------------------------------ bounds
\* a whole session (Spec)
MaxSubmits == 2
MaxToggles == 1
MaxChunks == 2
\* the command router (RouterSpec)
RouterSubmits == 2
RouterChunks == 1
\* the stream coordinator (StreamSpec)
StreamSubmits == 1
StreamToggles == 1
StreamChunks == 2
\* the stream coordinator under fair scheduling (FairSpec)
FairSubmits == 1
FairToggles == 1
FairChunks == 1
\* a network burst (BurstSpec)
BurstSubmits == 1
BurstChunks == 2
\* a long session (HistSpec)
HistSubmits == 2
HistChunks == 1
\* a user who types during a stream (CancelSpec)
CancelSubmits == 2
CancelChunks == 2
\* a user who completes names (TabSpec)
TabSubmits == 2
\* a user who walks the directories (PathSpec)
PathSubmits == 3
\* the scripted sequence among other output (SudoSpec)
SudoSubmits == 2
SudoToggles == 1
\* every kind of command (FrameSpec)
FrameSubmits == 2
\* one large chunk (DrainSpec)
DrainSubmits == 1
\* a user who switches modes between messages (ModeSpec)
ModeSubmits == 2
ModeToggles == 2
ModeChunks == 1

\* ------------------------------------------------------- program constants
HistoryLimit == 50
FastBacklog == 150
MediumBacklog == 50
FastRate == 3
MediumRate == 2
SlowRate == 1
ErrorPrefixLen == 29
ErrorSuffixLen == 1
UnknownLen == 7
FsOutputDelay == 100
AutoLsDelay == 1000
RebootDelay == 5000

ApiKeyPresent == TRUE

\* ----------------------------------------------------------- small helpers
Last(s) == s[Len(s)]
Front(s) == SubSeq(s, 1, Len(s) - 1)
Min(a, b) == IF a < b THEN a ELSE b
Max(a, b) == IF a > b THEN a ELSE b

IsBlank(lex) == lex \in {" ", "  "}

\* String.prototype.slice(n) and slice(0, n) on a sequence of characters
SliceFrom(s, n) == SubSeq(s, Min(n, Len(s)) + 1, Len(s))
SliceTo(s, n) == SubSeq(s, 1, Min(n, Len(s)))

\* String.prototype.trim(): drop the leading and the trailing blank runs
RECURSIVE TrimLeft(_)
TrimLeft(s) == IF s # <<>> /\ IsBlank(Head(s)) THEN TrimLeft(Tail(s)) ELSE s
RECURSIVE TrimRight(_)
TrimRight(s) == IF s # <<>> /\ IsBlank(Last(s)) THEN TrimRight(Front(s)) ELSE s
Trim(s) == TrimRight(TrimLeft(s))

\* String.prototype.toLowerCase(), word by word
LowerWord(w) ==
  CASE w = "CLEAR" -> "clear"
    [] w = "RBX" -> "rbx"
    [] w = "LS" -> "ls"
    [] OTHER -> w
ToLowerCase(s) == [i \in 1..Len(s) |-> LowerWord(s[i])]

\* the whitespace tokenizer of the filesystem executor
Tokens(s) == SelectSeq(s, LAMBDA lex : ~IsBlank(lex))

StartsWith(s, p) == Len(s) >= Len(p) /\ SubSeq(s, 1, Len(p)) = p

\* ------------------------------------------------- the virtual filesystem
\* (utils/fileSystem: the tree is read-only; a path is the sequence of the
\* names walked from the root, so <<>> is "/")
HomePath == <<"home", "operator">>
RootPath == <<>>

FSDirs ==
  { <<>>, <<"home">>, <<"home", "operator">>, <<"home", "operator", "docs">> }
FSFiles ==
  { <<"home", "operator", "readme.txt">>,
    <<"home", "operator", "docs", "notes.txt">>,
    <<"home", "operator", "docs", "notes.md">> }

\* children of a directory, in insertion order
FSChildren(dir) ==
  CASE dir = <<>> -> <<"home">>
    [] dir = <<"home">> -> <<"operator">>
    [] dir = <<"home", "operator">> -> <<"docs", "readme.txt">>
    [] dir = <<"home", "operator", "docs">> -> <<"notes.txt", "notes.md">>
    [] OTHER -> <<>>

FSContent(file) ==
  CASE file = <<"home", "operator", "readme.txt">> -> "WELCOME OPERATOR"
    [] file = <<"home", "operator", "docs", "notes.txt">> -> "NOTHING HERE"
    [] file = <<"home", "operator", "docs", "notes.md">> -> "# NOTES"
    [] OTHER -> ""

\* a path argument, split at "/"
PathArg(word) ==
  CASE word = "docs" -> [absolute |-> FALSE, segs |-> <<"docs">>]
    [] word = ".." -> [absolute |-> FALSE, segs |-> <<"..">>]
    [] word = "." -> [absolute |-> FALSE, segs |-> <<".">>]
    [] word = "/" -> [absolute |-> TRUE, segs |-> <<>>]
    [] word = "readme.txt" -> [absolute |-> FALSE, segs |-> <<"readme.txt">>]
    [] word = "docs/notes.txt" ->
         [absolute |-> FALSE, segs |-> <<"docs", "notes.txt">>]
    [] word = "readme.txt/x" ->
         [absolute |-> FALSE, segs |-> <<"readme.txt", "x">>]
    [] OTHER -> [absolute |-> FALSE, segs |-> <<word>>]

\* mutant: '..' at the root is an error
RECURSIVE WalkFailingAboveRoot(_, _)
WalkFailingAboveRoot(at, segs) ==
  IF segs = <<>> THEN [ok |-> TRUE, path |-> at, err |-> ""]
  ELSE LET seg == Head(segs) IN
    CASE seg = "." -> WalkFailingAboveRoot(at, Tail(segs))
      [] seg = ".." ->
           IF at = <<>> THEN [ok |-> FALSE, path |-> at, err |-> "NotFound"]
           ELSE WalkFailingAboveRoot(Front(at), Tail(segs))
      [] OTHER ->
           IF at \in FSFiles THEN [ok |-> FALSE, path |-> at, err |-> "NotADirectory"]
           ELSE IF \E i \in 1..Len(FSChildren(at)) : FSChildren(at)[i] = seg
                THEN WalkFailingAboveRoot(Append(at, seg), Tail(segs))
                ELSE [ok |-> FALSE, path |-> at, err |-> "NotFound"]

\* the walk of resolvePath, segment by segment
RECURSIVE Walk(_, _)
Walk(at, segs) ==
  IF segs = <<>> THEN [ok |-> TRUE, path |-> at, err |-> ""]
  ELSE LET seg == Head(segs) IN
    CASE seg = "." -> Walk(at, Tail(segs))
      [] seg = ".." -> Walk(IF at = <<>> THEN at ELSE Front(at), Tail(segs))
      [] OTHER ->
           IF at \in FSFiles THEN [ok |-> FALSE, path |-> at, err |-> "NotADirectory"]
           ELSE IF \E i \in 1..Len(FSChildren(at)) : FSChildren(at)[i] = seg
                THEN Walk(Append(at, seg), Tail(segs))
                ELSE [ok |-> FALSE, path |-> at, err |-> "NotFound"]

resolvePath(path, word) ==
  LET arg == PathArg(word) IN
  Walk(IF arg.absolute THEN <<>> ELSE path, arg.segs)

\* the rendered text of a message is a sequence of lexemes
RECURSIVE PathString(_)
PathString(path) ==
  IF path = <<>> THEN "/"
  ELSE IF Len(path) = 1 THEN "/" \o path[1]
  ELSE PathString(Front(path)) \o "/" \o Last(path)

Listing(dir) ==
  [i \in 1..Len(FSChildren(dir)) |->
     IF Append(dir, FSChildren(dir)[i]) \in FSDirs
       THEN FSChildren(dir)[i] \o "/"
       ELSE FSChildren(dir)[i]]

NoFsResult == [handled |-> FALSE, output |-> <<>>, hasNewPath |-> FALSE, newPath |-> <<>>]
FsOutput(out) == [handled |-> TRUE, output |-> out, hasNewPath |-> FALSE, newPath |-> <<>>]
FsMoved(to) == [handled |-> TRUE, output |-> <<>>, hasNewPath |-> TRUE, newPath |-> to]

FsVerbs == {"ls", "cd", "cat", "pwd", "whoami"}

\* the characters of a word, for the prefix test of the completion
Chars(word) ==
  CASE word = "" -> <<>>
    [] word = "d" -> <<"d">>
    [] word = "do" -> <<"d", "o">>
    [] word = "docs" -> <<"d", "o", "c", "s">>
    [] word = "n" -> <<"n">>
    [] word = "notes." -> <<"n", "o", "t", "e", "s", ".">>
    [] word = "notes.t" -> <<"n", "o", "t", "e", "s", ".", "t">>
    [] word = "notes.txt" -> <<"n", "o", "t", "e", "s", ".", "t", "x", "t">>
    [] word = "notes.md" -> <<"n", "o", "t", "e", "s", ".", "m", "d">>
    [] word = "re" -> <<"r", "e">>
    [] word = "readme.txt" -> <<"r", "e", "a", "d", "m", "e", ".", "t", "x", "t">>
    [] word = "home" -> <<"h", "o", "m", "e">>
    [] word = "operator" -> <<"o", "p", "e", "r", "a", "t", "o", "r">>
    [] word = "cd" -> <<"c", "d">>
    [] word = "cat" -> <<"c", "a", "t">>
    [] word = "ls" -> <<"l", "s">>
    [] word = "hello" -> <<"h", "e", "l", "l", "o">>
    [] OTHER -> <<word>>

\* complete(partialName, currentPath): the children of the directory whose
\* name starts with the partial name, in insertion order
getFileSystemCompletions(partial, path) ==
  SelectSeq(FSChildren(path), LAMBDA name : StartsWith(Chars(name), Chars(partial)))

executeFileSystemCommand(command, path) ==
  LET tok == Tokens(command) IN
  IF tok = <<>> \/ Head(tok) \notin FsVerbs THEN NoFsResult
  ELSE LET verb == Head(tok)
           hasArg == Len(tok) >= 2
           res == resolvePath(path, IF hasArg THEN tok[2] ELSE ".")
       IN
    CASE verb = "pwd" -> FsOutput(<<PathString(path)>>)
      [] verb = "whoami" -> FsOutput(<<"operator">>)
      [] verb = "ls" ->
           IF ~res.ok THEN FsOutput(<<"ls:", tok[2], res.err>>)
           ELSE IF res.path \in FSDirs THEN FsOutput(Listing(res.path))
           ELSE FsOutput(<<Last(res.path)>>)
      [] verb = "cd" ->
           IF ~hasArg THEN FsMoved(HomePath)
           ELSE IF ~res.ok THEN FsOutput(<<"cd:", tok[2], res.err>>)
           ELSE IF res.path \in FSFiles THEN FsOutput(<<"cd:", tok[2], "NotADirectory">>)
           ELSE FsMoved(res.path)
      [] verb = "cat" ->
           IF ~hasArg THEN FsOutput(<<"cat:", "missing operand">>)
           ELSE IF ~res.ok THEN FsOutput(<<"cat:", tok[2], res.err>>)
           ELSE IF res.path \in FSDirs THEN FsOutput(<<"cat:", tok[2], "IsADirectory">>)
           ELSE FsOutput(<<FSContent(res.path)>>)

\* ------------------------------------------------------------------ state
VARIABLES
  isBooting,          \* App: the boot screen is shown
  chatMode,           \* App: the mode the UI shows
  currentPath,        \* App: current directory of the virtual filesystem
  history,            \* App: submitted raw inputs, oldest first
  historyIndex,       \* App: recall cursor, 0-based, -1 for none
  messages,           \* App: the message log
  inputValue,         \* App: content of the input field
  isProcessing,       \* App: the system is busy
  streamingBuffer,    \* App ref: characters received and not yet revealed
  isNetworkStreaming, \* App ref: the remote call is still producing
  typingInterval,     \* App ref: the 20ms interval is registered
  isTypewriterActive, \* App ref: the busy state belongs to a stream
  timers,             \* pending setTimeout callbacks, in registration order
  currentMode,        \* service: mode of the next chat session
  chatSession,        \* service: NoSession, or the session with the instruction it was created with
  callActive,         \* the awaited remote call has neither finished nor thrown
  delivered,          \* chunks the current remote call has delivered
  arrived,            \* history variable: every character appended to the buffer by the current call
  submitted,          \* history variable: every accepted raw input, oldest first
  route,              \* history variable: branch the last accepted submission took
  toggles,            \* history variable: number of mode toggles
  accepted,           \* history variable: submissions accepted in this run
  cursorAtSubmit,     \* history variable: historyIndex when the last submission was made
  ignored             \* history variable: the input of the last Enter if the handler returned at once, else <<>>

vars ==
  << isBooting, chatMode, currentPath, history, historyIndex, messages,
     inputValue, isProcessing, streamingBuffer, isNetworkStreaming,
     typingInterval, isTypewriterActive, timers, currentMode, chatSession,
     callActive, delivered, arrived, submitted, route, toggles, accepted,
     cursorAtSubmit, ignored >>

appVars == << isBooting, chatMode, currentPath, history, historyIndex, inputValue >>
streamVars == << streamingBuffer, isNetworkStreaming, callActive, delivered, arrived >>
serviceVars == << currentMode, chatSession >>

\* ------------------------------------------------------- the chat service
\* (services/geminiService) the two system instructions
TerminalInstruction == "TERMINAL_INSTRUCTION"
AssistantInstruction == "ASSISTANT_INSTRUCTION"

\* chatSession = null
NoSession == [instruction |-> "none", born |-> 0]

\* client.chats.create: a session is told apart from every other by the
\* number of the submission that created it
CreateSession(mode, n) ==
  [instruction |-> IF mode = "terminal" THEN TerminalInstruction ELSE AssistantInstruction,
   born |-> n]

\* getChatSession: the session the next message is sent on
getChatSession(session, mode, n) ==
  IF session = NoSession THEN CreateSession(mode, n) ELSE session

\* mutant: the mode is switched and the session is kept
switchChatModeKeepingSession(mode) ==
  /\ currentMode' = mode
  /\ chatSession' = chatSession

\* switchChatMode
switchChatMode(mode) ==
  /\ currentMode' = mode
  /\ chatSession' = NoSession

\* ---------------------------------------------------------------- messages
UserMessage(userText) ==
  [sender |-> "USER", text |-> userText, typed |-> <<>>, isStreaming |-> FALSE]
SystemMessage(text) ==
  [sender |-> "SYSTEM", text |-> text, typed |-> <<>>, isStreaming |-> FALSE]
AiPlaceholder ==
  [sender |-> "AI", text |-> <<>>, typed |-> <<>>, isStreaming |-> TRUE]

InitMessage == SystemMessage(<<"INITIALIZING ENDEAVOUR_OS COMPATIBILITY LAYER...">>)
NoKeyMessage == SystemMessage(<<"FATAL ERROR: API_KEY MISSING.">>)
HuntMessage == SystemMessage(<<">>> SCAVENGER HUNT INITIATED <<<">>)
RebootMessage == SystemMessage(<<"SYSTEM REBOOT...">>)
ModeMessage(newMode) ==
  SystemMessage(IF newMode = "terminal"
                  THEN <<"SWITCHING SYSTEM TO: ENDEAVOUR_OS...", "LOADING SHELL ENVIRONMENT...">>
                  ELSE <<"SWITCHING SYSTEM TO: GEMINI_LINK...", "ESTABLISHING NEURAL LINK...">>)

\* the 'sudo rm -rf' script: (text, delay) pairs in their listed order
SudoSequence ==
  << [text |-> "AUTHENTICATING ROOT...", delay |-> 600],
     [text |-> "ACCESS GRANTED.", delay |-> 1200],
     [text |-> "DELETING /bin...", delay |-> 1800],
     [text |-> "DELETING /usr...", delay |-> 2400],
     [text |-> "DELETING /etc...", delay |-> 2900],
     [text |-> "CRITICAL ERROR: KERNEL PANIC. SYSTEM HALTED.", delay |-> 3500] >>

\* ------------------------------------------------------------------ timers
AppendTimer(msg, delay) == [kind |-> "append", msg |-> msg, dir |-> <<>>, delay |-> delay]
AutoLsTimer(dir) == [kind |-> "autols", msg |-> InitMessage, dir |-> dir, delay |-> AutoLsDelay]
RebootTimer == [kind |-> "reboot", msg |-> RebootMessage, dir |-> <<>>, delay |-> RebootDelay]

\* mutant: pending callbacks run in any order
FireableInAnyOrder(q, i) == TRUE

\* A pending callback may run unless one registered before it has a delay
\* that is not longer: that one's deadline is not later, so it runs first.
\* (A callback registered later with a shorter delay may run before or after.)
Fireable(q, i) == \A j \in 1..(i - 1) : q[j].delay > q[i].delay

RemoveAt(q, i) == SubSeq(q, 1, i - 1) \o SubSeq(q, i + 1, Len(q))

\* ------------------------------------------------------- typewriter pieces
\* mutant: the speed control has no fast tier
charsToTakeTwoSpeeds(bufferLen) ==
  IF bufferLen > MediumBacklog THEN MediumRate ELSE SlowRate

\* SPEED CONTROL
charsToTake(bufferLen) ==
  IF bufferLen > FastBacklog THEN FastRate
  ELSE IF bufferLen > MediumBacklog THEN MediumRate
  ELSE SlowRate

\* setMessages updater of the reveal branch: the chunk goes to the last
\* message, and only if that message is the streaming one
RevealInto(prev, chunk) ==
  IF Len(prev) >= 1 /\ prev[Len(prev)].isStreaming
    THEN [prev EXCEPT ![Len(prev)].typed = @ \o chunk]
    ELSE prev

\* mutant: the terminal branch flips the flag of the last message
StopStreamingFlipping(prev) ==
  IF Len(prev) >= 1
    THEN [prev EXCEPT ![Len(prev)].isStreaming = ~@]
    ELSE prev

\* setMessages updater of the terminal branch
StopStreaming(prev) ==
  IF Len(prev) >= 1 /\ prev[Len(prev)].isStreaming
    THEN [prev EXCEPT ![Len(prev)].isStreaming = FALSE]
    ELSE prev

\* mutant: the tick ends the stream on an empty buffer alone
TerminalConditionIgnoringSource(networkStreaming, buffer) == Len(buffer) = 0

\* the else-if condition of the tick (the buffer is known to be empty there)
TerminalCondition(networkStreaming, buffer) ==
  ~networkStreaming /\ Len(buffer) = 0

\* "\n[ERROR: CONNECTION FAILED - <message>]"
ErrorFragment(msgLen) ==
  [i \in 1..(ErrorPrefixLen + msgLen + ErrorSuffixLen) |-> 0 - i]

\* the next n characters of the remote stream
ChunkText(n) == [i \in 1..n |-> Len(SelectSeq(arrived, LAMBDA c : c > 0)) + i]

\* the effect that owns the interval: it is registered exactly while the
\* App is processing a stream
IntervalAfterEffect(processing, typewriterActive) == processing /\ typewriterActive

\* ------------------------------------------------------- router predicates
IsClear(commandLower) == commandLower = <<"clear">>
IsRbxHunt(commandLower) == commandLower = <<"rbx", " ", "hunt">>
SlashWord(w) == w \in {"/", "/home"}
IsSudoRm(commandLower) ==
  \/ commandLower = <<"sudo", " ", "rm", " ", "-rf">>
  \/ /\ StartsWith(commandLower, <<"sudo", " ", "rm", " ", "-rf", " ">>)
     /\ Len(commandLower) >= 7
     /\ SlashWord(commandLower[7])
IsCd(commandLower) ==
  \/ commandLower = <<"cd">>
  \/ Len(commandLower) >= 2 /\ commandLower[1] = "cd" /\ commandLower[2] \in {" ", "  "}

\* mutant: the capacity cut keeps the oldest entries
PushHistoryKeepingOldest(prev, userText) ==
  LET newHistory == Append(prev, userText) IN
  IF Len(newHistory) > HistoryLimit
    THEN SubSeq(newHistory, 1, HistoryLimit)
    ELSE newHistory

\* setHistory updater
PushHistory(prev, userText) ==
  LET newHistory == Append(prev, userText) IN
  IF Len(newHistory) > HistoryLimit
    THEN SubSeq(newHistory, Len(newHistory) - HistoryLimit + 1, Len(newHistory))
    ELSE newHistory

\* inputValue.split(' '): the last part is the last word, or empty when the
\* input is empty or ends in a space
LastPart(input) ==
  IF input = <<>> \/ IsBlank(Last(input)) THEN "" ELSE Last(input)

\* mutant: the first of several matches is taken
TabResultTakingFirst(input, path) ==
  LET partial == LastPart(input)
      matches == getFileSystemCompletions(partial, path)
  IN IF partial # "" /\ Len(matches) >= 1
       THEN Front(input) \o <<matches[1]>>
       ELSE input

\* 4. TAB AUTOCOMPLETE: the input after the key
TabResult(input, path) ==
  LET partial == LastPart(input)
      matches == getFileSystemCompletions(partial, path)
  IN IF partial # "" /\ Len(matches) = 1
       THEN Front(input) \o <<matches[1]>>
       ELSE input

\* ------------------------------------------------------------------ inputs
Inputs ==
  { <<"clear">>, <<" ", "CLEAR", " ">>, <<"rbx", " ", "hunt">>,
    <<"ls">>, <<"cd", " ", "docs">>, <<"cd", " ", "nowhere">>,
    <<"sudo", " ", "rm", " ", "-rf">>, <<"hello">>, <<"  ">>,
    <<"cd", " ", "do">> }

ChunkSizes == {3}
BurstSizes == {FastBacklog + 1}
ErrorMessageLens == {UnknownLen}

\* ------------------------------------------------------------------- Init
Init ==
  /\ isBooting = TRUE
  /\ chatMode = "terminal"
  /\ currentPath = HomePath
  /\ history = <<>>
  /\ historyIndex = -1
  /\ messages = <<InitMessage>>
  /\ inputValue = <<>>
  /\ isProcessing = FALSE
  /\ streamingBuffer = <<>>
  /\ isNetworkStreaming = FALSE
  /\ typingInterval = FALSE
  /\ isTypewriterActive = FALSE
  /\ timers = <<>>
  /\ currentMode = "terminal"
  /\ chatSession = NoSession
  /\ callActive = FALSE
  /\ delivered = 0
  /\ arrived = <<>>
  /\ submitted = <<>>
  /\ route = "none"
  /\ toggles = 0
  /\ accepted = 0
  /\ cursorAtSubmit = -1
  /\ ignored = <<>>

\* ---------------------------------------------------------------- actions
\* BootScreen onComplete, with the system-check effect that follows it
BootComplete ==
  /\ isBooting
  /\ isBooting' = FALSE
  /\ IF ApiKeyPresent
       THEN /\ switchChatMode("terminal")
            /\ UNCHANGED messages
       ELSE /\ messages' = Append(messages, NoKeyMessage)
            /\ UNCHANGED serviceVars
  /\ UNCHANGED << chatMode, currentPath, history, historyIndex, inputValue,
                  isProcessing, typingInterval, isTypewriterActive, timers,
                  submitted, route, toggles, accepted, cursorAtSubmit, ignored >>
  /\ UNCHANGED streamVars

\* The input field is rendered once the boot screen is gone, and is never
\* disabled: editing writes inputValue and historyIndex, which only the key
\* handlers read.
Editing == ~isBooting

\* onChange of the input field
Type(S) ==
  /\ Editing
  /\ \E s \in S : s # inputValue /\ inputValue' = s
  /\ UNCHANGED << isBooting, chatMode, currentPath, history, historyIndex,
                  messages, isProcessing, typingInterval, isTypewriterActive,
                  timers, submitted, route, toggles, accepted, cursorAtSubmit, ignored >>
  /\ UNCHANGED streamVars
  /\ UNCHANGED serviceVars

\* mutant: the reset command also returns to the home directory
SendClearResettingPath ==
  /\ inputValue' = <<>>
  /\ messages' = <<>>
  /\ route' = "clear"
  /\ currentPath' = HomePath
  /\ UNCHANGED << isProcessing, isTypewriterActive, timers >>
  /\ UNCHANGED streamVars
  /\ UNCHANGED serviceVars

\* handleSendMessage, the part after the history update, one branch per path
SendClear ==
  /\ inputValue' = <<>>
  /\ messages' = <<>>
  /\ route' = "clear"
  /\ UNCHANGED << currentPath, isProcessing, isTypewriterActive, timers >>
  /\ UNCHANGED streamVars
  /\ UNCHANGED serviceVars

SendRbxHunt(userText) ==
  /\ inputValue' = <<>>
  /\ messages' = Append(messages, UserMessage(userText))
  /\ timers' = Append(timers, AppendTimer(HuntMessage, FsOutputDelay))
  /\ route' = "rbx"
  /\ UNCHANGED << currentPath, isProcessing, isTypewriterActive >>
  /\ UNCHANGED streamVars
  /\ UNCHANGED serviceVars

\* mutant: setCurrentPath is not called
SendFileSystemKeepingPath(userText, commandLower, fsResult) ==
  LET outTimer == IF fsResult.output # <<>>
                    THEN <<AppendTimer(SystemMessage(fsResult.output), FsOutputDelay)>>
                    ELSE <<>>
      lsTimer == IF fsResult.hasNewPath /\ IsCd(commandLower)
                   THEN <<AutoLsTimer(fsResult.newPath)>>
                   ELSE <<>>
  IN
  /\ inputValue' = <<>>
  /\ messages' = Append(messages, UserMessage(userText))
  /\ timers' = timers \o outTimer \o lsTimer
  /\ currentPath' = currentPath
  /\ route' = "fs"
  /\ UNCHANGED << isProcessing, isTypewriterActive >>
  /\ UNCHANGED streamVars
  /\ UNCHANGED serviceVars

\* LOCAL COMMAND: FILESYSTEM
SendFileSystem(userText, commandLower, fsResult) ==
  LET outTimer == IF fsResult.output # <<>>
                    THEN <<AppendTimer(SystemMessage(fsResult.output), FsOutputDelay)>>
                    ELSE <<>>
      lsTimer == IF fsResult.hasNewPath /\ IsCd(commandLower)
                   THEN <<AutoLsTimer(fsResult.newPath)>>
                   ELSE <<>>
  IN
  /\ inputValue' = <<>>
  /\ messages' = Append(messages, UserMessage(userText))
  /\ timers' = timers \o outTimer \o lsTimer
  /\ currentPath' = IF fsResult.hasNewPath THEN fsResult.newPath ELSE currentPath
  /\ route' = "fs"
  /\ UNCHANGED << isProcessing, isTypewriterActive >>
  /\ UNCHANGED streamVars
  /\ UNCHANGED serviceVars

SendSudoRm(userText) ==
  /\ inputValue' = <<>>
  /\ isProcessing' = TRUE
  /\ isTypewriterActive' = FALSE
  /\ messages' = Append(messages, UserMessage(userText))
  /\ timers' = timers
               \o [i \in 1..Len(SudoSequence) |->
                     AppendTimer(SystemMessage(<<SudoSequence[i].text>>), SudoSequence[i].delay)]
               \o <<RebootTimer>>
  /\ route' = "sudo"
  /\ UNCHANGED currentPath
  /\ UNCHANGED streamVars
  /\ UNCHANGED serviceVars

\* the remote path, up to the await: sendMessageToGeminiStream calls
\* getChatSession, which creates the session when there is none
SendToAi(userText) ==
  /\ inputValue' = <<>>
  /\ isProcessing' = TRUE
  /\ isNetworkStreaming' = TRUE
  /\ isTypewriterActive' = TRUE
  /\ streamingBuffer' = <<>>
  /\ messages' = Append(Append(messages, UserMessage(userText)), AiPlaceholder)
  /\ chatSession' = getChatSession(chatSession, currentMode, accepted + 1)
  /\ callActive' = TRUE
  /\ delivered' = 0
  /\ arrived' = <<>>
  /\ route' = "chat"
  /\ UNCHANGED << currentPath, timers, currentMode >>

\* mutant: the recall cursor is not reset
RecordSubmissionKeepingCursor(userText) ==
  /\ history' = PushHistory(history, userText)
  /\ historyIndex' = historyIndex
  /\ submitted' = Append(submitted, userText)
  /\ accepted' = accepted + 1
  /\ cursorAtSubmit' = historyIndex

\* 1. ADD TO HISTORY, and the reset of the recall cursor
RecordSubmission(userText) ==
  /\ history' = PushHistory(history, userText)
  /\ historyIndex' = -1
  /\ submitted' = Append(submitted, userText)
  /\ accepted' = accepted + 1
  /\ cursorAtSubmit' = historyIndex

\* mutant: a result with empty output is taken for null
FsHandledOnlyWithOutput(fsResult) == fsResult.handled /\ fsResult.output # <<>>

\* if (fsResult): the executor returned a result rather than null
FsHandled(fsResult) == fsResult.handled

\* mutant: the lower-cased command is taken from the untrimmed input
CommandLowerUntrimmed(userText) == ToLowerCase(userText)

\* const commandLower = userText.trim().toLowerCase()
CommandLower(userText) == ToLowerCase(Trim(userText))

\* Enter: handleSendMessage
KeyEnter ==
  /\ ~isBooting
  /\ IF Trim(inputValue) = <<>> \/ isProcessing
       THEN /\ ignored' = inputValue
            /\ UNCHANGED << typingInterval, messages, isProcessing,
                            isTypewriterActive, timers, submitted, route,
                            toggles, accepted, cursorAtSubmit >>
            /\ UNCHANGED appVars
            /\ UNCHANGED streamVars
            /\ UNCHANGED serviceVars
       ELSE LET userText == inputValue
                command == Trim(userText)
                commandLower == CommandLower(userText)
                fsResult == executeFileSystemCommand(command, currentPath)
            IN
            /\ RecordSubmission(userText)
            /\ ignored' = <<>>
            /\ IF IsClear(commandLower) THEN SendClear
               ELSE IF IsRbxHunt(commandLower) THEN SendRbxHunt(userText)
               ELSE IF FsHandled(fsResult) THEN SendFileSystem(userText, commandLower, fsResult)
               ELSE IF IsSudoRm(commandLower) THEN SendSudoRm(userText)
               ELSE SendToAi(userText)
            /\ typingInterval' = IntervalAfterEffect(isProcessing', isTypewriterActive')
            /\ UNCHANGED << isBooting, chatMode, toggles >>

\* the remote stream yields a chunk: streamingBuffer.current += chunkText
NetChunk(Sizes) ==
  /\ callActive
  /\ \E n \in Sizes :
       /\ streamingBuffer' = streamingBuffer \o ChunkText(n)
       /\ arrived' = arrived \o ChunkText(n)
  /\ delivered' = delivered + 1
  /\ UNCHANGED << isNetworkStreaming, callActive >>
  /\ UNCHANGED appVars
  /\ UNCHANGED serviceVars
  /\ UNCHANGED << messages, isProcessing, typingInterval, isTypewriterActive,
                  timers, submitted, route, toggles, accepted, cursorAtSubmit, ignored >>

\* mutant: closing the source flushes what is pending into the message
NetCompleteFlushing ==
  /\ callActive
  /\ isNetworkStreaming' = FALSE
  /\ callActive' = FALSE
  /\ messages' = RevealInto(messages, streamingBuffer)
  /\ streamingBuffer' = <<>>
  /\ UNCHANGED << delivered, arrived >>
  /\ UNCHANGED appVars
  /\ UNCHANGED serviceVars
  /\ UNCHANGED << isProcessing, typingInterval, isTypewriterActive,
                  timers, submitted, route, toggles, accepted, cursorAtSubmit, ignored >>

\* the remote stream ends: the finally block
NetComplete ==
  /\ callActive
  /\ isNetworkStreaming' = FALSE
  /\ callActive' = FALSE
  /\ UNCHANGED << streamingBuffer, delivered, arrived >>
  /\ UNCHANGED appVars
  /\ UNCHANGED serviceVars
  /\ UNCHANGED << messages, isProcessing, typingInterval, isTypewriterActive,
                  timers, submitted, route, toggles, accepted, cursorAtSubmit, ignored >>

\* mutant: the source is closed in the try block only, not on a throw
NetThrowWithoutClose ==
  /\ callActive
  /\ \E m \in ErrorMessageLens :
       /\ streamingBuffer' = streamingBuffer \o ErrorFragment(m)
       /\ arrived' = arrived \o ErrorFragment(m)
  /\ callActive' = FALSE
  /\ UNCHANGED << isNetworkStreaming, delivered >>
  /\ UNCHANGED appVars
  /\ UNCHANGED serviceVars
  /\ UNCHANGED << messages, isProcessing, typingInterval, isTypewriterActive,
                  timers, submitted, route, toggles, accepted, cursorAtSubmit, ignored >>

\* mutant: the error text is assigned to the buffer instead of appended
NetThrowOverwriting ==
  /\ callActive
  /\ \E m \in ErrorMessageLens :
       /\ streamingBuffer' = ErrorFragment(m)
       /\ arrived' = arrived \o ErrorFragment(m)
  /\ isNetworkStreaming' = FALSE
  /\ callActive' = FALSE
  /\ UNCHANGED delivered
  /\ UNCHANGED appVars
  /\ UNCHANGED serviceVars
  /\ UNCHANGED << messages, isProcessing, typingInterval, isTypewriterActive,
                  timers, submitted, route, toggles, accepted, cursorAtSubmit, ignored >>

\* the remote call throws, at call time or while iterating: catch, finally
NetThrow ==
  /\ callActive
  /\ \E m \in ErrorMessageLens :
       /\ streamingBuffer' = streamingBuffer \o ErrorFragment(m)
       /\ arrived' = arrived \o ErrorFragment(m)
  /\ isNetworkStreaming' = FALSE
  /\ callActive' = FALSE
  /\ UNCHANGED delivered
  /\ UNCHANGED appVars
  /\ UNCHANGED serviceVars
  /\ UNCHANGED << messages, isProcessing, typingInterval, isTypewriterActive,
                  timers, submitted, route, toggles, accepted, cursorAtSubmit, ignored >>

\* the body of the interval callback, as a function of what it reads and
\* writes; outcome names the branch taken
TickResult(buffer, networkStreaming, log, processing, interval) ==
  IF Len(buffer) > 0
    THEN LET take == charsToTake(Len(buffer))
             chunk == SliceTo(buffer, take)
         IN [outcome |-> "revealed",
             buffer |-> SliceFrom(buffer, take),
             log |-> RevealInto(log, chunk),
             processing |-> processing,
             interval |-> interval]
    ELSE IF TerminalCondition(networkStreaming, buffer)
      THEN [outcome |-> "terminal",
            buffer |-> buffer,
            log |-> StopStreaming(log),
            processing |-> FALSE,
            interval |-> FALSE]
      ELSE [outcome |-> "waiting",
            buffer |-> buffer,
            log |-> log,
            processing |-> processing,
            interval |-> interval]

\* one firing of the 20ms interval of the typewriter loop
Tick ==
  /\ typingInterval
  /\ LET result == TickResult(streamingBuffer, isNetworkStreaming, messages,
                              isProcessing, typingInterval)
     IN /\ streamingBuffer' = result.buffer
        /\ messages' = result.log
        /\ isProcessing' = result.processing
        /\ typingInterval' = result.interval
  /\ UNCHANGED << isNetworkStreaming, callActive, delivered, arrived >>
  /\ UNCHANGED appVars
  /\ UNCHANGED serviceVars
  /\ UNCHANGED << isTypewriterActive, timers, submitted, route, toggles, accepted, cursorAtSubmit, ignored >>

\* a pending setTimeout callback runs
TimerFire ==
  \E i \in 1..Len(timers) :
    /\ Fireable(timers, i)
    /\ timers' = RemoveAt(timers, i)
    /\ CASE timers[i].kind = "append" ->
              /\ messages' = Append(messages, timers[i].msg)
              /\ UNCHANGED << isProcessing, currentPath, typingInterval >>
         [] timers[i].kind = "autols" ->
              LET lsResult == executeFileSystemCommand(<<"ls">>, timers[i].dir) IN
              /\ messages' = IF lsResult.handled /\ lsResult.output # <<>>
                               THEN Append(messages, SystemMessage(lsResult.output))
                               ELSE messages
              /\ UNCHANGED << isProcessing, currentPath, typingInterval >>
         [] timers[i].kind = "reboot" ->
              /\ messages' = <<RebootMessage>>
              /\ isProcessing' = FALSE
              /\ currentPath' = HomePath
              /\ typingInterval' = IntervalAfterEffect(FALSE, isTypewriterActive)
    /\ UNCHANGED << isBooting, chatMode, history, historyIndex, inputValue,
                    isTypewriterActive, submitted, route, toggles, accepted, cursorAtSubmit, ignored >>
    /\ UNCHANGED streamVars
    /\ UNCHANGED serviceVars

\* mutant: the button changes the App's mode without telling the service
ToggleModeLocalOnly ==
  /\ ~isBooting
  /\ LET newMode == IF chatMode = "terminal" THEN "assistant" ELSE "terminal" IN
     /\ chatMode' = newMode
     /\ messages' = Append(messages, ModeMessage(newMode))
  /\ toggles' = toggles + 1
  /\ UNCHANGED << isBooting, currentPath, history, historyIndex, inputValue,
                  isProcessing, typingInterval, isTypewriterActive, timers,
                  submitted, route, accepted, cursorAtSubmit, ignored >>
  /\ UNCHANGED streamVars
  /\ UNCHANGED serviceVars

\* the mode button: toggleMode, with the service's switchChatMode
ToggleMode ==
  /\ ~isBooting
  /\ LET newMode == IF chatMode = "terminal" THEN "assistant" ELSE "terminal" IN
     /\ chatMode' = newMode
     /\ switchChatMode(newMode)
     /\ messages' = Append(messages, ModeMessage(newMode))
  /\ toggles' = toggles + 1
  /\ UNCHANGED << isBooting, currentPath, history, historyIndex, inputValue,
                  isProcessing, typingInterval, isTypewriterActive, timers,
                  submitted, route, accepted, cursorAtSubmit, ignored >>
  /\ UNCHANGED streamVars

\* ArrowUp
KeyArrowUp ==
  /\ Editing
  /\ Len(history) > 0
  /\ LET newIndex == IF historyIndex = -1 THEN Len(history) - 1
                     ELSE Max(0, historyIndex - 1)
     IN /\ historyIndex' = newIndex
        /\ inputValue' = history[newIndex + 1]
  /\ UNCHANGED << isBooting, chatMode, currentPath, history, messages,
                  isProcessing, typingInterval, isTypewriterActive, timers,
                  submitted, route, toggles, accepted, cursorAtSubmit, ignored >>
  /\ UNCHANGED streamVars
  /\ UNCHANGED serviceVars

\* ArrowDown
KeyArrowDown ==
  /\ Editing
  /\ historyIndex # -1
  /\ LET newIndex == Min(Len(history) - 1, historyIndex + 1) IN
     IF newIndex = Len(history) - 1 /\ historyIndex = Len(history) - 1
       THEN /\ historyIndex' = -1
            /\ inputValue' = <<>>
       ELSE /\ historyIndex' = newIndex
            /\ inputValue' = history[newIndex + 1]
  /\ UNCHANGED << isBooting, chatMode, currentPath, history, messages,
                  isProcessing, typingInterval, isTypewriterActive, timers,
                  submitted, route, toggles, accepted, cursorAtSubmit, ignored >>
  /\ UNCHANGED streamVars
  /\ UNCHANGED serviceVars

\* Tab
KeyTab ==
  /\ Editing
  /\ inputValue' = TabResult(inputValue, currentPath)
  /\ UNCHANGED << isBooting, chatMode, currentPath, history, historyIndex,
                  messages, isProcessing, typingInterval, isTypewriterActive,
                  timers, submitted, route, toggles, accepted, cursorAtSubmit, ignored >>
  /\ UNCHANGED streamVars
  /\ UNCHANGED serviceVars

\* ------------------------------------------------- bounded environments
\* The bounds live here, not in the actions: a run accepts at most s
\* submissions (and the user stops editing after the last), toggles the mode
\* at most t times, and a remote call delivers at most c chunks.  The user
\* of UserEdits waits for the App to be idle before touching the input; the
\* user of UserEditsAnyTime does not.
UserEditsAnyTime(s) == accepted < s
UserEdits(s) == UserEditsAnyTime(s) /\ ~isProcessing
Within(s, t, c) == accepted' <= s /\ toggles' <= t /\ delivered' <= c

\* a whole session
Next ==
  \/ BootComplete
  \/ UserEdits(MaxSubmits) /\ Type(Inputs)
  \/ KeyEnter /\ Within(MaxSubmits, MaxToggles, MaxChunks)
  \/ NetChunk(ChunkSizes) /\ Within(MaxSubmits, MaxToggles, MaxChunks)
  \/ NetComplete
  \/ NetThrow
  \/ Tick
  \/ TimerFire
  \/ ToggleMode /\ Within(MaxSubmits, MaxToggles, MaxChunks)
  \/ UserEdits(MaxSubmits) /\ KeyArrowUp
  \/ UserEdits(MaxSubmits) /\ KeyArrowDown
  \/ UserEdits(MaxSubmits) /\ KeyTab

Spec == Init /\ [][Next]_vars

\* The command router: every input and every key, the delayed outputs, and
\* remote calls that complete.
RouterNext ==
  \/ BootComplete
  \/ UserEdits(RouterSubmits) /\ Type(Inputs)
  \/ KeyEnter /\ Within(RouterSubmits, 0, RouterChunks)
  \/ NetChunk(ChunkSizes) /\ Within(RouterSubmits, 0, RouterChunks)
  \/ NetComplete
  \/ Tick
  \/ TimerFire
  \/ UserEdits(RouterSubmits) /\ KeyArrowUp
  \/ UserEdits(RouterSubmits) /\ KeyArrowDown
  \/ UserEdits(RouterSubmits) /\ KeyTab

RouterSpec == Init /\ [][RouterNext]_vars

\* The stream coordinator: chat submissions and a command whose delayed
\* output can land in the log during a stream, the mode button, and remote
\* calls that complete or throw.
StreamInputs == { <<"hello">>, <<"rbx", " ", "hunt">> }

StreamNext ==
  \/ BootComplete
  \/ UserEdits(StreamSubmits) /\ Type(StreamInputs)
  \/ KeyEnter /\ Within(StreamSubmits, StreamToggles, StreamChunks)
  \/ NetChunk(ChunkSizes) /\ Within(StreamSubmits, StreamToggles, StreamChunks)
  \/ NetComplete
  \/ NetThrow
  \/ Tick
  \/ TimerFire
  \/ ToggleMode /\ Within(StreamSubmits, StreamToggles, StreamChunks)

StreamSpec == Init /\ [][StreamNext]_vars

\* A fast network burst: chat submissions only, with chunks large enough to
\* put the backlog above both thresholds of the speed control.
BurstNext ==
  \/ BootComplete
  \/ UserEdits(BurstSubmits) /\ Type({<<"hello">>})
  \/ KeyEnter /\ Within(BurstSubmits, 0, BurstChunks)
  \/ NetChunk(BurstSizes) /\ Within(BurstSubmits, 0, BurstChunks)
  \/ NetComplete
  \/ NetThrow
  \/ Tick

BurstSpec == Init /\ [][BurstNext]_vars

\* A session in which the reset command has been submitted HistoryLimit - 1
\* times, in three spellings: each run leaves the log empty and nothing
\* pending, so the state differs from the state after boot in the history.
\* From there the user types and submits; the history is written by the
\* submissions alone, so recall keys and the mode button are left out.
ClearSpellings == << <<"clear">>, <<" ", "CLEAR", " ">>, <<"CLEAR">> >>
Prefill(n) == [i \in 1..n |-> ClearSpellings[(i % 3) + 1]]

InitHist ==
  /\ isBooting = FALSE
  /\ chatMode = "terminal"
  /\ currentPath = HomePath
  /\ history = Prefill(HistoryLimit - 1)
  /\ historyIndex = -1
  /\ messages = <<>>
  /\ inputValue = <<>>
  /\ isProcessing = FALSE
  /\ streamingBuffer = <<>>
  /\ isNetworkStreaming = FALSE
  /\ typingInterval = FALSE
  /\ isTypewriterActive = FALSE
  /\ timers = <<>>
  /\ currentMode = "terminal"
  /\ chatSession = NoSession
  /\ callActive = FALSE
  /\ delivered = 0
  /\ arrived = <<>>
  /\ submitted = Prefill(HistoryLimit - 1)
  /\ route = "clear"
  /\ toggles = 0
  /\ accepted = 0
  /\ cursorAtSubmit = -1
  /\ ignored = <<>>

HistNext ==
  \/ UserEdits(HistSubmits) /\ Type(Inputs)
  \/ KeyEnter /\ Within(HistSubmits, 0, HistChunks)
  \/ NetChunk(ChunkSizes) /\ Within(HistSubmits, 0, HistChunks)
  \/ NetComplete
  \/ NetThrow
  \/ Tick
  \/ TimerFire

HistSpec == InitHist /\ [][HistNext]_vars

\* the tick runs as long as its interval is registered; the remote call of a
\* started stream completes or throws; pending timeouts run
FairNext ==
  \/ BootComplete
  \/ UserEdits(FairSubmits) /\ Type(StreamInputs)
  \/ KeyEnter /\ Within(FairSubmits, FairToggles, FairChunks)
  \/ NetChunk(ChunkSizes) /\ Within(FairSubmits, FairToggles, FairChunks)
  \/ NetComplete
  \/ NetThrow
  \/ Tick
  \/ TimerFire
  \/ ToggleMode /\ Within(FairSubmits, FairToggles, FairChunks)

FairSpec ==
  /\ Init /\ [][FairNext]_vars
  /\ WF_vars(Tick)
  /\ WF_vars(NetComplete \/ NetThrow)
  /\ WF_vars(TimerFire)

\* A user who does not wait: the input is edited and Enter is pressed while
\* a stream is in progress, with a chat message and the reset command.
CancelInputs == { <<"hello">>, <<"clear">> }

CancelNext ==
  \/ BootComplete
  \/ UserEditsAnyTime(CancelSubmits) /\ Type(CancelInputs)
  \/ KeyEnter /\ Within(CancelSubmits, 0, CancelChunks)
  \/ NetChunk(ChunkSizes) /\ Within(CancelSubmits, 0, CancelChunks)
  \/ NetComplete
  \/ NetThrow
  \/ Tick

CancelSpec == Init /\ [][CancelNext]_vars

\* The completion: the user moves between the home directory and docs, types
\* a command with a partial name (or none, or none that matches) and presses
\* Tab; the typed inputs hold no complete name except 'docs'.
TabInputs ==
  { <<"cd", " ", "docs">>, <<"cd", " ", "do">>, <<"cat", " ", "re">>,
    <<"cat", " ", "n">>, <<"cat", "  ", "notes.t">>, <<"cat", " ", "notes.">>,
    <<"cat", " ">>, <<"d">>, <<"hello">> }

TabNext ==
  \/ BootComplete
  \/ UserEdits(TabSubmits) /\ Type(TabInputs)
  \/ UserEdits(TabSubmits) /\ KeyTab
  \/ KeyEnter /\ Within(TabSubmits, 0, 0)
  \/ NetComplete
  \/ Tick
  \/ TimerFire

TabSpec == Init /\ [][TabNext]_vars

\* The chat service and the mode button: chat messages and the scripted
\* reboot, with the mode toggled before, between and during them.
ModeInputs == { <<"hello">>, <<"sudo", " ", "rm", " ", "-rf">> }

ModeNext ==
  \/ BootComplete
  \/ UserEdits(ModeSubmits) /\ Type(ModeInputs)
  \/ KeyEnter /\ Within(ModeSubmits, ModeToggles, ModeChunks)
  \/ NetChunk(ChunkSizes) /\ Within(ModeSubmits, ModeToggles, ModeChunks)
  \/ NetComplete
  \/ Tick
  \/ TimerFire
  \/ ToggleMode /\ Within(ModeSubmits, ModeToggles, ModeChunks)

ModeSpec == Init /\ [][ModeNext]_vars

\* One append: the remote call of a chat message delivers a single chunk of
\* 200 characters and completes before, during or after the drain.
DrainNext ==
  \/ BootComplete
  \/ UserEdits(DrainSubmits) /\ Type({<<"hello">>})
  \/ KeyEnter /\ Within(DrainSubmits, 0, 1)
  \/ NetChunk({200}) /\ Within(DrainSubmits, 0, 1)
  \/ NetComplete
  \/ Tick

DrainSpec == Init /\ [][DrainNext]_vars

\* Walking the tree: cd down, up, to the root, home (no argument) and to a
\* name that does not exist, and ls; the delayed outputs run in between.
PathInputs ==
  { <<"cd", " ", "docs">>, <<"cd", " ", "..">>, <<"cd", " ", "/">>, <<"cd">>,
    <<"cd", " ", "nowhere">>, <<"ls">> }

PathNext ==
  \/ BootComplete
  \/ UserEdits(PathSubmits) /\ Type(PathInputs)
  \/ KeyEnter /\ Within(PathSubmits, 0, 0)
  \/ TimerFire

PathSpec == Init /\ [][PathNext]_vars

\* Every kind of command: each filesystem verb, cd that succeeds and cd that
\* fails, the reset, the scripted sequences, a chat message and a blank line.
FrameInputs ==
  { <<"cd", " ", "docs">>, <<"cd", " ", "..">>, <<"cd", " ", "/">>, <<"cd">>,
    <<"cd", " ", "nowhere">>, <<"cd", " ", "readme.txt">>, <<"ls">>,
    <<"cat", " ", "readme.txt">>, <<"pwd">>, <<"whoami">>, <<"clear">>,
    <<"rbx", " ", "hunt">>, <<"sudo", " ", "rm", " ", "-rf">>, <<"hello">>,
    <<"  ">> }

FrameNext ==
  \/ BootComplete
  \/ UserEdits(FrameSubmits) /\ Type(FrameInputs)
  \/ KeyEnter /\ Within(FrameSubmits, 0, 0)
  \/ NetComplete
  \/ Tick
  \/ TimerFire

FrameSpec == Init /\ [][FrameNext]_vars

\* The scripted sequence with company: a cd whose delayed listing is still
\* pending, a chat message before it, and the mode button during it.
SudoInputs ==
  { <<"sudo", " ", "rm", " ", "-rf">>, <<"cd", " ", "docs">>, <<"hello">> }

SudoNext ==
  \/ BootComplete
  \/ UserEdits(SudoSubmits) /\ Type(SudoInputs)
  \/ KeyEnter /\ Within(SudoSubmits, SudoToggles, 0)
  \/ NetComplete
  \/ NetThrow
  \/ Tick
  \/ TimerFire
  \/ ToggleMode /\ Within(SudoSubmits, SudoToggles, 0)

SudoSpec == Init /\ [][SudoNext]_vars

\* ============================================================== properties
\* a stream is in progress
Streaming == isProcessing /\ isTypewriterActive

\* the AI message of the latest stream: the last AI message of the log
HasAiMessage(log) == \E i \in 1..Len(log) : log[i].sender = "AI"
AiIndex(log) ==
  CHOOSE i \in 1..Len(log) :
    /\ log[i].sender = "AI"
    /\ \A j \in (i + 1)..Len(log) : log[j].sender # "AI"
Revealed == messages[AiIndex(messages)].typed

\* C1: at every point of a stream, the text revealed in the streaming AI
\* message followed by the pending buffer is the concatenation, in arrival
\* order, of all chunks appended so far (error fragment included), whatever
\* else is appended to the log meanwhile.
C1_NoCharacterLoss ==
  Streaming => (HasAiMessage(messages) /\ Revealed \o streamingBuffer = arrived)

\* C2: a tick takes the terminal branch (isProcessing false, interval
\* stopped) exactly when the source is closed and the buffer is empty; a tick
\* in that situation moves no character, and once isProcessing is false no
\* interval is left to tick.
C2_TerminalIffClosedAndDrained ==
  [][ /\ Tick =>
           /\ (~isProcessing' /\ ~typingInterval')
                <=> (~isNetworkStreaming /\ streamingBuffer = <<>>)
           /\ (~isProcessing' \/ ~typingInterval')
                => (~isNetworkStreaming /\ streamingBuffer = <<>>)
           /\ (~isNetworkStreaming /\ streamingBuffer = <<>>)
                => /\ streamingBuffer' = <<>>
                   /\ \A i \in 1..Len(messages) : messages'[i].typed = messages[i].typed
      /\ ~isProcessing' => (~typingInterval' /\ streamingBuffer' = <<>>)
    ]_vars

C2_Witness ==
  /\ route = "chat"
  /\ ~isProcessing
  /\ ~typingInterval
  /\ Len(messages) >= 1
  /\ messages[Len(messages)].sender = "AI"
  /\ messages[Len(messages)].typed # <<>>
  /\ ~messages[Len(messages)].isStreaming

\* C3: every started stream reaches its terminal state, also when the remote
\* call throws: the buffer is drained and isProcessing becomes false.
C3_StreamTerminates ==
  Streaming ~> (~isProcessing /\ streamingBuffer = <<>> /\ ~isNetworkStreaming)

C3_Witness ==
  /\ route = "chat"
  /\ ~isProcessing
  /\ streamingBuffer = <<>>
  /\ \E i \in 1..Len(arrived) : arrived[i] < 0
  /\ \E i \in 1..Len(arrived) : arrived[i] > 0

\* C4: a tick with a backlog of n characters moves exactly k characters from
\* the front of the buffer to the revealed text, k = 3 above 150, 2 above 50
\* up to 150, 1 from 1 to 50, and nothing when the buffer is empty.
C4_ThroughputPolicy ==
  [][ Tick =>
        LET n == Len(streamingBuffer)
            k == IF n > 150 THEN 3 ELSE IF n > 50 THEN 2 ELSE IF n >= 1 THEN 1 ELSE 0
        IN /\ streamingBuffer' = SubSeq(streamingBuffer, k + 1, n)
           /\ HasAiMessage(messages)
           /\ messages'[AiIndex(messages)].typed = Revealed \o SubSeq(streamingBuffer, 1, k)
    ]_vars

\* the buffer half of C4 alone: what a tick removes from the buffer
BufferDrainPolicy ==
  [][ Tick =>
        LET n == Len(streamingBuffer)
            k == IF n > 150 THEN 3 ELSE IF n > 50 THEN 2 ELSE IF n >= 1 THEN 1 ELSE 0
        IN streamingBuffer' = SubSeq(streamingBuffer, k + 1, n)
    ]_vars

RECURSIVE TotalTyped(_)
TotalTyped(log) ==
  IF log = <<>> THEN 0 ELSE Len(Head(log).typed) + TotalTyped(Tail(log))

IsPrefix(a, b) == Len(a) <= Len(b) /\ SubSeq(b, 1, Len(a)) = a

\* C5: the step that closes the source changes neither the pending buffer
\* (beyond an error fragment appended behind it) nor any message, and no step
\* makes the visible text grow by more than 3 characters, whatever the
\* backlog and whether or not the source is closed.
C5_CloseDoesNotFlush ==
  [][ /\ (isNetworkStreaming /\ ~isNetworkStreaming')
           => /\ messages' = messages
              /\ IsPrefix(streamingBuffer, streamingBuffer')
              /\ arrived' = arrived => streamingBuffer' = streamingBuffer
      /\ TotalTyped(messages') <= TotalTyped(messages) + 3
    ]_vars

C5_Witness ==
  /\ isProcessing
  /\ ~isNetworkStreaming
  /\ Len(streamingBuffer) > 150
  /\ HasAiMessage(messages)
  /\ Revealed # <<>>

\* arrival order: stream characters ascending, then the error fragment
Before(a, b) ==
  \/ a > 0 /\ b > 0 /\ a < b
  \/ a > 0 /\ b < 0
  \/ a < 0 /\ b < 0 /\ a > b
\* (Before is a strict total order, so neighbours suffice)
InArrivalOrder(seq) ==
  \A s \in {seq} : \A i \in 1..(Len(s) - 1) : Before(s[i], s[i + 1])
\* a \o b is in arrival order
OrderedAcross(a, b) == InArrivalOrder(a \o b)
HasError(seq) == \E i \in 1..Len(seq) : seq[i] < 0

ClaimedPath(userText, path) ==
  LET lower == ToLowerCase(Trim(userText)) IN
  IF lower = <<"clear">> THEN "clear"
  ELSE IF lower = <<"rbx", " ", "hunt">> THEN "rbx"
  ELSE IF lower = <<"sudo", " ", "rm", " ", "-rf">>
          \/ (Len(lower) >= 7 /\ SubSeq(lower, 1, 6) = <<"sudo", " ", "rm", " ", "-rf", " ">>
              /\ lower[7] \in {"/", "/home"})
    THEN "sudo"
  ELSE IF executeFileSystemCommand(Trim(userText), path).handled THEN "fs"
  ELSE "chat"

Submits == submitted' # submitted
\* on a submission step: the log ends with a fresh streaming placeholder
PlaceholderCreated ==
  /\ messages' # <<>>
  /\ Last(messages') = AiPlaceholder
  /\ messages' # messages
HasTimer(q, kind) == \E i \in 1..Len(q) : q[i].kind = kind

\* C7: every accepted submission takes exactly one path, the first that
\* matches in the order reset, scripted sequence, filesystem, remote chat;
\* the remote call starts only on the last.
C7_RoutingExclusive ==
  [][ Submits =>
        LET p == ClaimedPath(Last(submitted'), currentPath) IN
        /\ route' = p
        /\ (p = "clear") <=> (messages' = <<>>)
        /\ (p = "chat") <=> callActive'
        /\ (p = "chat") <=> PlaceholderCreated
        /\ (p = "sudo") <=> (HasTimer(timers', "reboot") /\ ~HasTimer(timers, "reboot"))
        /\ (p = "rbx") <=> (Len(timers') = Len(timers) + 1 /\ Last(timers').msg = HuntMessage)
        /\ (p \in {"sudo", "chat"}) <=> isProcessing'
        /\ (p # "fs") => currentPath' = currentPath
    ]_vars

C7_Witness ==
  /\ accepted = 2
  /\ route = "chat"
  /\ ClaimedPath(submitted[1], HomePath) = "fs"

\* C8: a submission reaches the remote chat only when the filesystem
\* executor returns null; when it returns a result (an error text or an empty
\* output included) isProcessing is not set, no streaming placeholder is
\* created and no remote call is made.
C8_NullVersusFailed ==
  [][ Submits =>
        LET fsResult == executeFileSystemCommand(Trim(Last(submitted')), currentPath) IN
        /\ (callActive' \/ isNetworkStreaming') => ~fsResult.handled
        /\ fsResult.handled =>
             /\ ~isProcessing'
             /\ ~callActive'
             /\ ~isNetworkStreaming'
             /\ ~typingInterval'
             /\ ~PlaceholderCreated
             /\ streamingBuffer' = streamingBuffer
    ]_vars

\* an error result and an empty output have both been handled locally
C8_Witness ==
  /\ accepted = 2
  /\ submitted = << <<"cd", " ", "nowhere">>, <<"cd", " ", "docs">> >>
  /\ route = "fs"
  /\ currentPath = <<"home", "operator", "docs">>
  /\ ~isProcessing

\* the last Min(n, k) entries of a sequence
LastEntries(seq, k) ==
  SubSeq(seq, Len(seq) - Min(Len(seq), k) + 1, Len(seq))

\* C9: the history holds at most 50 entries, namely the most recent
\* min(n, 50) accepted raw inputs in submission order.
C9_HistoryBounded ==
  /\ Len(history) <= 50
  /\ history = LastEntries(submitted, 50)

C9_Witness ==
  /\ Len(submitted) > 50
  /\ Len(history) = 50
  /\ Last(history) # <<"clear">>

\* C10: every accepted submission leaves the recall cursor at -1, whatever
\* path it takes and wherever the cursor was.
C10_CursorReset ==
  [][ Submits => historyIndex' = -1 ]_vars

C10_Witness ==
  /\ cursorAtSubmit # -1
  /\ historyIndex = -1
  /\ accepted = 2

\* the reboot callback of the 'sudo rm -rf' sequence runs
RebootCompletes == HasTimer(timers, "reboot") /\ ~HasTimer(timers', "reboot")
ClearExecuted == Submits /\ route' = "clear"
StreamStateReset ==
  /\ streamingBuffer' = <<>>
  /\ ~isNetworkStreaming'
  /\ ~isProcessing'
  /\ ~typingInterval'

\* C11: after 'clear' is executed and after the reboot of 'sudo rm -rf'
\* completes, the command history is empty, so that ArrowUp recalls nothing
\* submitted before the reset, and the stream state is reset.
C11_ResetDiscardsHistory ==
  [][ (ClearExecuted \/ RebootCompletes) => (history' = <<>> /\ StreamStateReset) ]_vars

\* the stream-state half of C11 alone
ResetLeavesStreamIdle ==
  [][ (ClearExecuted \/ RebootCompletes) => StreamStateReset ]_vars

\* the reboot half of C11 alone
RebootDiscardsHistory ==
  [][ RebootCompletes => history' = <<>> ]_vars

\* Enter is pressed on the reset command while a stream is in progress
ClearIssuedInStream ==
  /\ Streaming
  /\ ignored' # ignored
  /\ IsClear(CommandLower(ignored'))

\* C12: 'clear' issued while a stream is in progress abandons the stream:
\* the message log is cleared and what is pending is not revealed afterwards
\* (the tick's updater finds no streaming message to reveal into).
C12_ClearAbandonsStream ==
  [][ ClearIssuedInStream =>
        /\ messages' = <<>>
        /\ \A n \in 1..FastRate : RevealInto(messages', SliceTo(streamingBuffer', n)) = messages'
    ]_vars

\* what the handler does instead: the Enter is dropped and the stream goes on
ClearIgnoredInStream ==
  [][ ClearIssuedInStream =>
        /\ messages' = messages
        /\ streamingBuffer' = streamingBuffer
        /\ isProcessing' /\ typingInterval'
        /\ history' = history
    ]_vars

\* the reset command is only ever executed while no stream is in progress
ClearOnlyWhenIdle ==
  [][ ClearExecuted => (~isProcessing /\ streamingBuffer = <<>>) ]_vars

\* the children of a directory whose name starts with a word, as a set
MatchingChildren(partial, path) ==
  { FSChildren(path)[i] : i \in { j \in 1..Len(FSChildren(path)) :
      IsPrefix(Chars(partial), Chars(FSChildren(path)[j])) } }

\* what the claim says Tab does to an input
ClaimedTabResult(input, path) ==
  LET word == IF input # <<>> /\ ~IsBlank(Last(input)) THEN Last(input) ELSE ""
      found == MatchingChildren(word, path)
  IN IF word # "" /\ Cardinality(found) = 1
       THEN SubSeq(input, 1, Len(input) - 1) \o <<CHOOSE c \in found : TRUE>>
       ELSE input

\* C13: Tab replaces the last word of the input, and only it, by the one
\* child name of the current directory that it is a prefix of; with no
\* match, several matches or an empty last word the input stays as it is.
C13_TabSingleMatch ==
  /\ TabResult(inputValue, currentPath) = ClaimedTabResult(inputValue, currentPath)
  /\ \A p \in FSDirs : \A input \in TabInputs :
       TabResult(input, p) = ClaimedTabResult(input, p)

\* Tab has completed a partial name in docs, where another name shares a
\* shorter prefix, behind a double space
C13_Witness ==
  /\ currentPath = <<"home", "operator", "docs">>
  /\ inputValue = <<"cat", "  ", "notes.txt">>
  /\ Cardinality(MatchingChildren("n", currentPath)) = 2
  /\ TabResult(<<"cat", " ", "n">>, currentPath) = <<"cat", " ", "n">>
  /\ TabResult(<<"cat", " ">>, currentPath) = <<"cat", " ">>

\* a message is sent to the remote chat
Sends == Submits /\ route' = "chat"
PromptOf(mode) ==
  IF mode = "terminal" THEN TerminalInstruction ELSE AssistantInstruction

\* C14: the two modes have different fixed prompts; a session that exists
\* was created with the prompt of the current mode; every message is sent on
\* a session with the prompt of the mode selected when it is sent; a send
\* reuses the session when there is one, and a mode switch discards it.
C14_SessionMatchesMode ==
  [][ /\ PromptOf("terminal") # PromptOf("assistant")
      /\ chatSession' # NoSession => chatSession'.instruction = PromptOf(currentMode')
      /\ Sends =>
           /\ chatSession' # NoSession
           /\ chatSession'.instruction = PromptOf(currentMode)
           /\ chatSession # NoSession => chatSession' = chatSession
           /\ chatSession = NoSession => chatSession'.born = accepted'
      /\ currentMode' # currentMode => chatSession' = NoSession
      /\ chatSession' # chatSession => (Sends \/ chatSession' = NoSession)
    ]_vars

\* after a switch to assistant mode, two messages have gone out on one
\* session created with the assistant prompt
C14_Witness ==
  /\ accepted = 2
  /\ route = "chat"
  /\ currentMode = "assistant"
  /\ chatSession = CreateSession("assistant", 1)

\* the reveal ticks the claim counts from a backlog of 200 down to b:
\* 17 of 3 characters (200 .. 149), 50 of 2 (149 .. 49), 49 of 1 (49 .. 0)
ClaimedTicksDone(b) ==
  IF b > 149 THEN (200 - b) \div 3
  ELSE IF b > 49 THEN 17 + (149 - b) \div 2
  ELSE 17 + 50 + (49 - b)
OnDrainChain(b) ==
  /\ b \in 0..200
  /\ b > 149 => (200 - b) % 3 = 0
  /\ (b > 49 /\ b <= 149) => (149 - b) % 2 = 0
SingleAppend == delivered = 1 /\ Len(arrived) = 200

\* C15: after one append of 200 characters the drain takes 116 reveal
\* ticks, 17 of 3 characters, then 50 of 2, then 49 of 1, whenever the source
\* is closed: the append starts the count at 0, every tick on a non-empty
\* buffer advances it by one, and the buffer is empty exactly at 116.
C15_DrainTakes116Ticks ==
  [][ /\ (delivered' = 1 /\ delivered = 0) =>
           (Len(streamingBuffer') = 200 /\ ClaimedTicksDone(Len(streamingBuffer')) = 0)
      /\ (SingleAppend /\ Tick /\ streamingBuffer # <<>>) =>
           LET b == Len(streamingBuffer)
               after == Len(streamingBuffer')
               done == ClaimedTicksDone(b)
           IN /\ OnDrainChain(b)
              /\ OnDrainChain(after)
              /\ ClaimedTicksDone(after) = done + 1
              /\ b - after = (IF done < 17 THEN 3 ELSE IF done < 17 + 50 THEN 2 ELSE 1)
              /\ (after = 0) <=> (done + 1 = 116)
              /\ TotalTyped(messages') = TotalTyped(messages) + (b - after)
      /\ (SingleAppend /\ Tick /\ streamingBuffer = <<>>) =>
           (streamingBuffer' = <<>> /\ TotalTyped(messages') = TotalTyped(messages))
    ]_vars

\* the drain of a single append is complete
C15_Witness ==
  /\ SingleAppend
  /\ ~isProcessing
  /\ streamingBuffer = <<>>
  /\ HasAiMessage(messages)
  /\ Len(Revealed) = 200
  /\ ClaimedTicksDone(0) = 116

\* the callback run once more on the state a first run has left
TickAgain(first) ==
  TickResult(first.buffer, isNetworkStreaming, first.log, first.processing, first.interval)

\* C16: a tick with the source closed and nothing pending takes the terminal
\* branch, and a further such tick takes it again and leaves the revealed
\* text, the buffer, isProcessing = false and the message flags as the first
\* one left them.
C16_TerminalTickIdempotent ==
  (~isNetworkStreaming /\ streamingBuffer = <<>>) =>
    LET first == TickResult(streamingBuffer, isNetworkStreaming, messages,
                            isProcessing, typingInterval)
    IN /\ first.outcome = "terminal"
       /\ ~first.processing
       /\ first.buffer = <<>>
       /\ \A i \in 1..Len(messages) : first.log[i].typed = messages[i].typed
       /\ TickAgain(first) = first
       /\ TickAgain(TickAgain(first)) = first

\* the terminal tick of a stream has run, ending a message that was streaming
C16_Witness ==
  /\ route = "chat"
  /\ ~isNetworkStreaming
  /\ streamingBuffer = <<>>
  /\ ~isProcessing
  /\ ~typingInterval
  /\ Len(messages) >= 1
  /\ Last(messages).sender = "AI"
  /\ Len(Last(messages).typed) = 3
  /\ ~Last(messages).isStreaming
  /\ TickResult(streamingBuffer, isNetworkStreaming, messages, isProcessing,
                typingInterval).log = messages

\* the two newest accepted submissions
LastTwo(seq) == SubSeq(seq, Len(seq) - 1, Len(seq))

\* C17: from /home/operator, 'cd docs' followed at once by 'cd ..' ends at
\* /home/operator: the first cd sets the path to its newPath and the second
\* is resolved against that path.
C17_CdDocsThenUp ==
  /\ [][ (Submits /\ currentPath = HomePath /\ Last(submitted') = <<"cd", " ", "docs">>)
           => currentPath' = <<"home", "operator", "docs">> ]_vars
  /\ [][ (Submits /\ Len(submitted') >= 2
             /\ LastTwo(submitted') = << <<"cd", " ", "docs">>, <<"cd", " ", "..">> >>
             /\ currentPath = <<"home", "operator", "docs">>)
           => currentPath' = HomePath ]_vars
  /\ [](submitted = << <<"cd", " ", "docs">>, <<"cd", " ", "..">> >>
           => currentPath = HomePath)

\* both commands have run from /home/operator, the second before the
\* delayed listing of the first
C17_Witness ==
  /\ submitted = << <<"cd", " ", "docs">>, <<"cd", " ", "..">> >>
  /\ currentPath = HomePath
  /\ HasTimer(timers, "autols")
  /\ Len(timers) = 2

CdUp(userText) == Tokens(Trim(userText)) = <<"cd", "..">>

\* C18: 'cd ..' at the root is a no-op and not an error: the path stays
\* '/', the executor returns a result with the root as newPath and no error
\* text, and so it is however often the command is repeated.
C18_CdUpAtRoot ==
  /\ [][ (Submits /\ currentPath = RootPath /\ CdUp(Last(submitted')))
           => /\ currentPath' = RootPath
              /\ route' = "fs"
              /\ executeFileSystemCommand(Trim(Last(submitted')), currentPath) = FsMoved(RootPath)
              /\ timers' = Append(timers, AutoLsTimer(RootPath))
         ]_vars
  /\ [](executeFileSystemCommand(<<"cd", " ", "..">>, RootPath) = FsMoved(RootPath))

\* 'cd ..' has been submitted twice at the root
C18_Witness ==
  /\ Len(submitted) = 3
  /\ submitted[1] = <<"cd", " ", "/">>
  /\ CdUp(submitted[2])
  /\ CdUp(submitted[3])
  /\ currentPath = RootPath
  /\ PathString(currentPath) = "/"

\* the six canned texts in their listed order
SudoTexts == [i \in 1..Len(SudoSequence) |-> <<SudoSequence[i].text>>]
IsCanned(text) == \E i \in 1..Len(SudoTexts) : SudoTexts[i] = text
\* the canned system messages of a log, and those still pending, in order
CannedShown(log) ==
  LET sys == SelectSeq(log, LAMBDA m : m.sender = "SYSTEM" /\ IsCanned(m.text))
  IN [i \in 1..Len(sys) |-> sys[i].text]
CannedPending(q) ==
  LET pend == SelectSeq(q, LAMBDA t : t.kind = "append" /\ IsCanned(t.msg.text))
  IN [i \in 1..Len(pend) |-> pend[i].msg.text]
\* the sequence runs from the submission to the reboot callback
InSudoSequence == HasTimer(timers, "reboot")
SudoUserMessageFirst(log) ==
  \E i \in 1..Len(log) :
    /\ log[i].sender = "USER"
    /\ IsSudoRm(CommandLower(log[i].text))
    /\ \A j \in 1..(i - 1) : ~(log[j].sender = "SYSTEM" /\ IsCanned(log[j].text))

\* C19: from the 'sudo rm -rf' submission to the reboot, the six canned
\* messages are appended after the user's message, each once and in their
\* listed order (shown followed by pending is always the list), all six are
\* in the log when the reboot runs, isProcessing stays true, and no tick
\* runs, so no text is revealed.
C19_SudoSequenceInOrder ==
  /\ [](InSudoSequence =>
          /\ isProcessing
          /\ ~typingInterval
          /\ CannedShown(messages) \o CannedPending(timers) = SudoTexts
          /\ SudoUserMessageFirst(messages))
  /\ [][ RebootCompletes =>
           (CannedShown(messages) = SudoTexts /\ CannedPending(timers) = <<>>) ]_vars
  /\ [][ (InSudoSequence /\ InSudoSequence') =>
           (~Tick /\ TotalTyped(messages') = TotalTyped(messages)) ]_vars
  /\ Len(SudoTexts) = 6

\* the sequence is half shown, with the listing of an earlier cd and a mode
\* message in between
C19_Witness ==
  /\ InSudoSequence
  /\ Len(CannedShown(messages)) = 3
  /\ Len(CannedPending(timers)) = 3
  /\ toggles = 1
  /\ \E i \in 1..Len(messages) : messages[i].text = Listing(<<"home", "operator", "docs">>)
  /\ Last(messages).text = SudoTexts[3]

\* the Enter key is pressed and the handler returns at once
IgnoredSubmission == ignored' # ignored /\ ~Submits

\* C20: the current path changes only by a successful cd, to exactly the
\* newPath of the result, and by the reboot, to the home directory; every
\* other filesystem result (ls, cat, pwd, whoami, a failed cd), the reset,
\* the scavenger hunt, a chat message, an ignored Enter and every step that
\* is not a submission leave it as it is.
C20_PathFrame ==
  [][ /\ Submits =>
           LET command == Trim(Last(submitted'))
               fsResult == executeFileSystemCommand(command, currentPath)
           IN IF route' = "fs" /\ fsResult.hasNewPath
                THEN /\ currentPath' = fsResult.newPath
                     /\ Head(Tokens(command)) = "cd"
                     /\ currentPath' \in FSDirs
                ELSE currentPath' = currentPath
      /\ (Submits /\ route' \in {"clear", "rbx", "chat", "sudo"}) => currentPath' = currentPath
      /\ IgnoredSubmission => currentPath' = currentPath
      /\ RebootCompletes => currentPath' = HomePath
      /\ (~Submits /\ ~RebootCompletes) => currentPath' = currentPath
    ]_vars

\* after a cd into docs, a reset has left the path where it was
C20_Witness ==
  /\ submitted = << <<"cd", " ", "docs">>, <<"clear">> >>
  /\ route = "clear"
  /\ messages = <<>>
  /\ currentPath = <<"home", "operator", "docs">>

\* the mode button has been pressed
Toggles == toggles' = toggles + 1
Modes == {"terminal", "assistant"}
OtherMode(mode) == IF mode = "terminal" THEN "assistant" ELSE "terminal"

\* C21: the App's chatMode and the service's currentMode are equal in every
\* state, whatever boot completion, toggles, submissions and reboots came
\* before; a toggle flips the mode between 'terminal' and 'assistant' and
\* appends exactly one system message, the one announcing the new mode; and
\* nothing but a toggle changes either mode.
C21_ModesNeverDiverge ==
  /\ [](chatMode \in Modes /\ chatMode = currentMode)
  /\ [][ /\ Toggles =>
             /\ chatMode' = OtherMode(chatMode)
             /\ currentMode' = OtherMode(currentMode)
             /\ messages' = Append(messages, ModeMessage(chatMode'))
             /\ Last(messages').sender = "SYSTEM"
             /\ ModeMessage("terminal") # ModeMessage("assistant")
      /\ (chatMode' # chatMode \/ currentMode' # currentMode) => Toggles
    ]_vars

\* after a 'sudo rm -rf' and its reboot the mode was toggled twice: the log
\* is the reboot notice followed by the two announcements, and both modes
\* are back at 'terminal'
C21_Witness ==
  /\ ~isBooting
  /\ accepted >= 1
  /\ toggles = 2
  /\ messages = <<RebootMessage, ModeMessage("assistant"), ModeMessage("terminal")>>
  /\ chatMode = "terminal"
  /\ currentMode = "terminal"

====
